---- MODULE Spec2Model ----
(***************************************************************************)
(* Model of watcher.go: the two file watchers (watchAuto, event driven,    *)
(* and watchTimed, polling), the hash store they own and the change        *)
(* detector fileChanged, together with the environment they run in: the    *)
(* filesystem, the fsnotify event and error channels, the ticker and the   *)
(* consumer of the notification channel.                                   *)
(***************************************************************************)
EXTENDS Integers, Sequences, FiniteSets, TLC

----------------------------------------------------------------------------
(* Bounds of the model *)

\* longest list of watched files
MaxFiles == 2
\* file contents are the numbers 0..MaxContent
MaxContent == 1
\* most raw events pending on watcher.Events
MaxQueue == 2
\* most errors pending on watcher.Errors
MaxErrors == 1

\* capacity of the notification channel the caller hands to the watcher (a
\* single-slot channel)
NotifyCap == 1

----------------------------------------------------------------------------
(* Paths, contents and digests *)

\* a path is the sequence of its components; these are the paths of the model:
\* two files that share a base name, and two files that share a directory
PathSeq == << <<"d1", "a">>, <<"d2", "a">>, <<"d1", "b">> >>
Paths == { PathSeq[i] : i \in 1..Len(PathSeq) }
Index(p) == CHOOSE i \in 1..Len(PathSeq) : PathSeq[i] = p

\* path.Base: the last component
Base(p) == p[Len(p)]

\* path.Dir: everything but the last component
Dir(p) == SubSeq(p, 1, Len(p) - 1)

Contents == 0..MaxContent
\* what fs holds for a path with no file
NoFile == MaxContent + 1

\* a digest is a [32]byte array, here a number; ZeroHash is the array's zero
\* value, which Go returns for a key the map does not hold
Digests == 0..MaxContent
ZeroHash == 0

\* sha256.Sum256: deterministic and collision free on the contents of the
\* model, onto the digests of the model
Sum256(data) == (data + 1) % (MaxContent + 1)

Range(s) == { s[i] : i \in 1..Len(s) }

RECURSIVE SeqsUpTo(_, _)
SeqsUpTo(S, n) ==
    IF n = 0 THEN { <<>> }
    ELSE LET shorter == SeqsUpTo(S, n - 1)
         IN  shorter \cup { Append(s, x) : s \in shorter, x \in S }

\* the lists of files a caller may hand to a watcher: up to MaxFiles
\* different paths, in the order of PathSeq
FileLists ==
    { fl \in SeqsUpTo(Paths, MaxFiles) :
        /\ fl # << >>
        /\ \A i \in 1..(Len(fl) - 1) : Index(fl[i]) < Index(fl[i + 1]) }

\* the hash store: a Go map from base name to digest
EmptyMap == [n \in {} |-> ZeroHash]
Put(h, name, hash) ==
    [n \in (DOMAIN h) \cup {name} |-> IF n = name THEN hash ELSE h[n]]
Lookup(h, name) == IF name \in DOMAIN h THEN h[name] ELSE ZeroHash

\* the directories of the model; they exist throughout
Dirs == { Dir(p) : p \in Paths }

Ops == { "Create", "Write", "Remove" }
NoEvent == [name |-> <<>>, op |-> "None"]
\* what event holds when the iteration received from watcher.Errors
ErrorEvent == [name |-> <<>>, op |-> "Error"]

\* what stands for the entry of a base name the store holds no entry for
Absent == MaxContent + 1

\* what is remembered of the last fileChanged call on a path: whether the
\* file was read (ok), the digest read, whether the store held that digest
\* under the file's base name before the call (recorded), and the store's
\* entry for the base name after the call; NoCheck: no call yet
NoCheck == [none |-> TRUE, ok |-> FALSE, digest |-> ZeroHash,
            recorded |-> FALSE, entry |-> Absent]

\* what stands for the content of a file no event of which was received yet
Unseen == MaxContent + 2

VARIABLES
    mode,       \* "auto" (watchAuto) or "timed" (watchTimed)
    files,      \* the list of watched files
    fs,         \* the filesystem: path -> content, or NoFile
    hashes,     \* the hash store of the running watcher
    watches,    \* the paths (files, directories) the fsnotify watcher watches
    events,     \* watcher.Events: raw events not yet received
    errors,     \* watcher.Errors: number of errors not yet received
    pc,         \* where the watcher is
    watcherErr, \* whether fsnotify.NewWatcher() returned an error
    notify,     \* number of notifications buffered in the notify channel
    event,      \* what the current loop iteration received (watchAuto)
    change,     \* the sweep's change flag (watchTimed)
    emitted,    \* notifications sent by the current loop iteration
    calls,      \* the fileChanged calls of the current loop iteration so far
    lastCall,   \* per path, the last fileChanged call on it
    seen        \* per watched file, what it held when an event of it was
                \* last received

vars == << mode, files, fs, hashes, watches, events, errors, pc, watcherErr,
           notify, event, change, emitted, calls, lastCall, seen >>

----------------------------------------------------------------------------
(* Hasher, hash store, change detector *)

\* hashFile: read and hash one file; a missing file is a read error
hashFile(file) ==
    IF fs[file] = NoFile
    THEN [hash |-> ZeroHash, err |-> TRUE]
    ELSE [hash |-> Sum256(fs[file]), err |-> FALSE]

RECURSIVE hashFilesFrom(_, _, _)
hashFilesFrom(fl, i, h) ==
    IF i > Len(fl) THEN h
    ELSE LET r == hashFile(fl[i])
         IN  hashFilesFrom(fl, i + 1,
                 IF r.err THEN h ELSE Put(h, Base(fl[i]), r.hash))

\* hashFiles: the initial hash store; files that cannot be read are skipped
hashFiles(fl) == hashFilesFrom(fl, 1, EmptyMap)

\* fileChanged without the return on a read error: the zero digest of the
\* failed read is compared and stored
fileChangedNoErrCheck(h, file) ==
    LET r == hashFile(file)
        name == Base(file)
        oldHash == Lookup(h, name)
    IN  IF oldHash # r.hash
        THEN [ret |-> TRUE, hashes |-> Put(h, name, r.hash)]
        ELSE [ret |-> FALSE, hashes |-> h]

\* fileChanged forgetting the entry of a file it cannot read
fileChangedForget(h, file) ==
    LET r == hashFile(file)
        name == Base(file)
        oldHash == Lookup(h, name)
    IN  IF r.err
        THEN [ret |-> FALSE, hashes |-> [n \in DOMAIN h \ {name} |-> h[n]]]
        ELSE IF oldHash # r.hash
             THEN [ret |-> TRUE, hashes |-> Put(h, name, r.hash)]
             ELSE [ret |-> FALSE, hashes |-> h]

\* fileChanged: the value returned and the hash store it leaves
fileChanged(h, file) ==
    LET r == hashFile(file)
        name == Base(file)
        oldHash == Lookup(h, name)
    IN  IF r.err THEN [ret |-> FALSE, hashes |-> h]
        ELSE IF oldHash # r.hash
             THEN [ret |-> TRUE, hashes |-> Put(h, name, r.hash)]
             ELSE [ret |-> FALSE, hashes |-> h]

\* the record of the call fileChanged(h, file)
CallRecord(h, file) ==
    LET r == hashFile(file)
        c == fileChanged(h, file)
    IN  [none |-> FALSE, ok |-> ~r.err, digest |-> r.hash, ret |-> c.ret,
         before |-> h, after |-> c.hashes]

\* the hash store's entry for a base name, Absent when it holds none
Entry(h, name) == IF name \in DOMAIN h THEN h[name] ELSE Absent

\* what is remembered of the call c on file
Remembered(c, file) ==
    [none |-> FALSE, ok |-> c.ok, digest |-> c.digest,
     recorded |-> c.ok /\ Entry(c.before, Base(file)) = c.digest,
     entry |-> Entry(c.after, Base(file))]

\* the call as listed in calls: with the file and the previous call on it
Listed(h, file, lc) ==
    [file |-> file, call |-> CallRecord(h, file), prev |-> lc[file]]

----------------------------------------------------------------------------
(* fsnotify *)

Exists(p) == p \in Dirs \/ (p \in Paths /\ fs[p] # NoFile)

\* watcher.Add: start watching a path; fails (error ignored by the callers)
\* when the path does not exist, and changes nothing when already watched
Add(w, p) == IF Exists(p) THEN w \cup {p} ELSE w

RECURSIVE addAllFrom(_, _, _)
addAllFrom(fl, i, w) ==
    IF i > Len(fl) THEN w
    ELSE addAllFrom(fl, i + 1, Add(Add(w, fl[i]), Dir(fl[i])))

\* the raw events an operation op on path p raises: one through the watch on
\* p itself (a create is seen by the directory only), one through the watch
\* on its directory
Raised(p, op) ==
    LET e == [name |-> p, op |-> op]
    IN  (IF p \in watches /\ op # "Create" THEN << e >> ELSE << >>)
        \o (IF Dir(p) \in watches THEN << e >> ELSE << >>)

\* index of the last watched file whose base name is that of the event, or 0
LastMatch(fl, e) ==
    LET hits == { i \in 1..Len(fl) : Base(e.name) = Base(fl[i]) }
    IN  IF hits = {} THEN 0 ELSE CHOOSE i \in hits : \A j \in hits : i >= j

\* the first match, or the first file of the list when none matches
FirstMatchOrFirst(fl, e) ==
    LET hits == { i \in 1..Len(fl) : Base(e.name) = Base(fl[i]) }
    IN  IF hits = {} THEN 1 ELSE CHOOSE i \in hits : \A j \in hits : i <= j

\* index of the first watched file whose base name is that of the event, or 0
FirstMatch(fl, e) ==
    LET hits == { i \in 1..Len(fl) : Base(e.name) = Base(fl[i]) }
    IN  IF hits = {} THEN 0 ELSE CHOOSE i \in hits : \A j \in hits : i <= j

----------------------------------------------------------------------------
\* the files of the model's filesystem: those in the directories of the
\* watched files (no watcher reads a file elsewhere or hears of it)
InScope(p) == \E i \in 1..Len(files) : Dir(p) = Dir(files[i])

(* The state after the caller has chosen a mode and a list of files, before
   the watcher function runs *)

Init ==
    /\ mode \in { "auto", "timed" }
    /\ files \in FileLists
    /\ fs \in [Paths -> Contents \cup {NoFile}]
    /\ \A p \in Paths : InScope(p) \/ fs[p] = NoFile
    /\ hashes = EmptyMap
    /\ watches = {}
    /\ events = << >>
    /\ errors = 0
    /\ pc = "start"
    /\ watcherErr = FALSE
    /\ notify = 0
    /\ event = NoEvent
    /\ change = FALSE
    /\ emitted = 0
    /\ calls = << >>
    /\ lastCall = [p \in Paths |-> NoCheck]
    /\ seen = [p \in Paths |-> Unseen]

----------------------------------------------------------------------------
(* watchAuto *)

\* hashes := hashFiles(files)
AutoStart ==
    /\ mode = "auto" /\ pc = "start"
    /\ hashes' = hashFiles(files)
    /\ pc' = "newwatcher"
    /\ UNCHANGED << mode, files, fs, watches, events, errors, notify, event,
                    change, emitted, calls, lastCall, watcherErr, seen >>

\* panicOnError(err): panics when err is not nil
panicOnError(err) == err

\* watchAuto going on to subscribe whatever NewWatcher returned
afterNewWatcherUnchecked(err) == "subscribe"

\* where watchAuto goes after fsnotify.NewWatcher() returned err
afterNewWatcher(err) == IF panicOnError(err) THEN "panicked" ELSE "subscribe"

\* watcher, err := fsnotify.NewWatcher(); panicOnError(err)
NewWatcher ==
    /\ mode = "auto" /\ pc = "newwatcher"
    /\ \E err \in BOOLEAN : watcherErr' = err /\ pc' = afterNewWatcher(err)
    /\ UNCHANGED << mode, files, fs, hashes, watches, events, errors, notify,
                    event, change, emitted, calls, lastCall, seen >>

\* the loop that adds a watch on every file and on its directory
AddWatches ==
    /\ mode = "auto" /\ pc = "subscribe"
    /\ watches' = addAllFrom(files, 1, watches)
    /\ pc' = "select"
    /\ UNCHANGED << mode, files, fs, hashes, events, errors, notify, event,
                    change, emitted, calls, lastCall, watcherErr, seen >>

\* the watches after the event e matched file: a create re-registers the file
rewatch(w, e, file) == IF e.op = "Create" THEN Add(w, file) ELSE w

\* watchAuto notifying on every matched event
afterCheckAlways(ret) == "send"

\* where watchAuto goes after fileChanged returned ret: to the send on
\* notify, or (after logging "no change") to the end of the loop body
afterCheck(ret) == IF ret THEN "send" ELSE "done"

\* case event := <-watcher.Events, up to the send on notify
HandleEvent ==
    /\ mode = "auto" /\ pc = "select" /\ events # << >>
    /\ LET e == Head(events)
           i == FirstMatch(files, e)
       IN  /\ events' = Tail(events)
           /\ event' = e
           /\ seen' = IF e.name \in Range(files)
                      THEN [seen EXCEPT ![e.name] = fs[e.name]]
                      ELSE seen
           /\ IF i = 0
              THEN /\ pc' = "done"
                   /\ UNCHANGED << hashes, watches, calls, lastCall >>
              ELSE LET file == files[i]
                       c == Listed(hashes, file, lastCall)
                   IN  /\ watches' = rewatch(watches, e, file)
                       /\ hashes' = c.call.after
                       /\ calls' = << c >>
                       /\ lastCall' = [lastCall EXCEPT
                                          ![file] = Remembered(c.call, file)]
                       /\ pc' = afterCheck(c.call.ret)
    /\ UNCHANGED << mode, files, fs, errors, notify, change, emitted,
                    watcherErr >>

\* watchAuto giving up on an error of the watcher
afterErrorFatal == "panicked"

\* where watchAuto goes after logging an error of the watcher: to the end
\* of the loop body
afterError == "done"

\* case err := <-watcher.Errors: the error is logged
HandleError ==
    /\ mode = "auto" /\ pc = "select" /\ errors > 0
    /\ errors' = errors - 1
    /\ event' = ErrorEvent
    /\ pc' = afterError
    /\ UNCHANGED << mode, files, fs, hashes, watches, events, notify, change,
                    emitted, calls, lastCall, watcherErr, seen >>

\* a send that needs the consumer to be receiving, as on an unbuffered channel
CanSendUnbuffered(n) == n < NotifyCap - 1

\* whether a send on the notify channel holding n notifications can proceed
CanSend(n) == n < NotifyCap

\* notify <- true in watchAuto
AutoSend ==
    /\ mode = "auto" /\ pc = "send"
    /\ CanSend(notify)
    /\ notify' = notify + 1
    /\ emitted' = emitted + 1
    /\ pc' = "done"
    /\ UNCHANGED << mode, files, fs, hashes, watches, events, errors, event,
                    change, calls, lastCall, watcherErr, seen >>

\* the end of the loop body: back to the select
AutoLoop ==
    /\ mode = "auto" /\ pc = "done"
    /\ pc' = "select"
    /\ event' = NoEvent /\ emitted' = 0 /\ calls' = << >>
    /\ UNCHANGED << mode, files, fs, hashes, watches, events, errors, notify,
                    change, lastCall, watcherErr, seen >>

----------------------------------------------------------------------------
(* watchTimed *)

\* hashes := hashFiles(files); ticker := time.Tick(duration)
TimedStart ==
    /\ mode = "timed" /\ pc = "start"
    /\ hashes' = hashFiles(files)
    /\ pc' = "wait"
    /\ UNCHANGED << mode, files, fs, watches, events, errors, notify, event,
                    change, emitted, calls, lastCall, watcherErr, seen >>

\* a sweep that gives up at the first file it cannot read
RECURSIVE sweepFromStopOnError(_, _)
sweepFromStopOnError(i, st) ==
    IF i > Len(files) THEN st
    ELSE LET file == files[i]
             c == Listed(st.hashes, file, st.lastCall)
             next == [hashes |-> c.call.after,
                      change |-> IF c.call.ret THEN TRUE ELSE st.change,
                      calls |-> Append(st.calls, c),
                      lastCall |-> [st.lastCall EXCEPT
                                      ![file] = Remembered(c.call, file)]]
         IN  IF c.call.ok THEN sweepFromStopOnError(i + 1, next) ELSE next

\* the sweep over files[i..]: st carries the hash store, the change flag and
\* the record of the calls (the call c and the state handed on are bound as
\* members of one-element sets, which has them evaluated once)
RECURSIVE sweepFrom(_, _)
sweepFrom(i, st) ==
    IF i > Len(files) THEN st
    ELSE LET file == files[i]
         IN  sweepFrom(i + 1,
                 CHOOSE next \in
                     { [hashes |-> c.call.after,
                        change |-> IF c.call.ret THEN TRUE ELSE st.change,
                        calls |-> Append(st.calls, c),
                        lastCall |-> [st.lastCall EXCEPT
                                        ![file] = Remembered(c.call, file)]]
                       : c \in { Listed(st.hashes, file, st.lastCall) } }
                     : TRUE)

\* change := false; for _, file := range files { ... }
sweep ==
    sweepFrom(1, [hashes |-> hashes, change |-> FALSE, calls |-> << >>,
                  lastCall |-> lastCall])

\* watchTimed notifying after every sweep
afterSweepAlways(ch) == "send"

\* where watchTimed goes after a sweep: to the send on notify, or (after
\* logging "nothing changed") to the end of the loop body
afterSweep(ch) == IF ch THEN "send" ELSE "done"

\* <-ticker, the sweep, up to the send on notify
Tick ==
    /\ mode = "timed" /\ pc = "wait"
    /\ \E st \in { sweep } :
           /\ hashes' = st.hashes
           /\ change' = st.change
           /\ calls' = st.calls
           /\ lastCall' = st.lastCall
           /\ pc' = afterSweep(st.change)
    /\ UNCHANGED << mode, files, fs, watches, events, errors, notify, event,
                    emitted, watcherErr, seen >>

\* notify <- true in watchTimed
TimedSend ==
    /\ mode = "timed" /\ pc = "send"
    /\ CanSend(notify)
    /\ notify' = notify + 1
    /\ emitted' = emitted + 1
    /\ pc' = "done"
    /\ UNCHANGED << mode, files, fs, hashes, watches, events, errors, event,
                    change, calls, lastCall, watcherErr, seen >>

\* the end of the loop body: back to waiting for the ticker
TimedLoop ==
    /\ mode = "timed" /\ pc = "done"
    /\ pc' = "wait"
    /\ change' = FALSE /\ emitted' = 0 /\ calls' = << >>
    /\ UNCHANGED << mode, files, fs, hashes, watches, events, errors, notify,
                    event, lastCall, watcherErr, seen >>

----------------------------------------------------------------------------
(* The environment *)

\* the environment acts between the steps of the watcher; the end of a loop
\* body takes no time, so nothing happens while the watcher is there, and
\* nothing that happens after a panic matters
Running == pc \notin { "panicked", "done" }

\* the consumer receives one notification
Receive ==
    /\ Running
    /\ notify > 0
    /\ notify' = notify - 1
    /\ UNCHANGED << mode, files, fs, hashes, watches, events, errors, pc,
                    event, change, emitted, calls, lastCall, watcherErr, seen >>

\* a process writes content c to an existing file
WriteFile ==
    /\ Running
    /\ \E p \in Paths, c \in Contents :
        /\ InScope(p) /\ fs[p] # NoFile
        /\ Len(events) + Len(Raised(p, "Write")) <= MaxQueue
        /\ fs' = [fs EXCEPT ![p] = c]
        /\ events' = events \o Raised(p, "Write")
    /\ UNCHANGED << mode, files, hashes, watches, errors, pc, notify, event,
                    change, emitted, calls, lastCall, watcherErr, seen >>

\* a process creates a file (or moves one into place) with content c
CreateFile ==
    /\ Running
    /\ \E p \in Paths, c \in Contents :
        /\ InScope(p) /\ fs[p] = NoFile
        /\ Len(events) + Len(Raised(p, "Create")) <= MaxQueue
        /\ fs' = [fs EXCEPT ![p] = c]
        /\ events' = events \o Raised(p, "Create")
    /\ UNCHANGED << mode, files, hashes, watches, errors, pc, notify, event,
                    change, emitted, calls, lastCall, watcherErr, seen >>

\* a process removes a file; the kernel drops the watch on the file itself
RemoveFile ==
    /\ Running
    /\ \E p \in Paths :
        /\ InScope(p) /\ fs[p] # NoFile
        /\ Len(events) + Len(Raised(p, "Remove")) <= MaxQueue
        /\ fs' = [fs EXCEPT ![p] = NoFile]
        /\ events' = events \o Raised(p, "Remove")
        /\ watches' = watches \ {p}
    /\ UNCHANGED << mode, files, hashes, errors, pc, notify, event, change,
                    emitted, calls, lastCall, watcherErr, seen >>

\* the fsnotify watcher reports an error on watcher.Errors
WatchError ==
    /\ mode = "auto" /\ pc \in { "select", "send" }
    /\ errors < MaxErrors
    /\ errors' = errors + 1
    /\ UNCHANGED << mode, files, fs, hashes, watches, events, pc, notify,
                    event, change, emitted, calls, lastCall, watcherErr, seen >>

Next ==
    \/ AutoStart \/ NewWatcher \/ AddWatches \/ HandleEvent \/ HandleError
    \/ AutoSend \/ AutoLoop
    \/ TimedStart \/ Tick \/ TimedSend \/ TimedLoop
    \/ Receive \/ WriteFile \/ CreateFile \/ RemoveFile \/ WatchError

Spec == Init /\ [][Next]_vars

\* the watchers started on a list in which no two files share a base name
DistinctNames ==
    \A i, j \in 1..Len(files) : Base(files[i]) = Base(files[j]) => i = j

InitDistinct == Init /\ DistinctNames

SpecDistinct == InitDistinct /\ [][Next]_vars

\* watchTimed alone, with a ticker that keeps firing, a loop that keeps
\* running and a consumer that receives what is sent: each of these steps is
\* taken if it stays possible
InitTimed == Init /\ mode = "timed"

NextTimed ==
    \/ TimedStart \/ Tick \/ TimedSend \/ TimedLoop
    \/ Receive \/ WriteFile \/ CreateFile \/ RemoveFile

FairTimed ==
    /\ WF_vars(TimedStart) /\ WF_vars(Tick)
    /\ WF_vars(TimedSend) /\ WF_vars(TimedLoop)
    /\ WF_vars(Receive)

SpecTimedFair == InitTimed /\ [][NextTimed]_vars /\ FairTimed

----------------------------------------------------------------------------
(* Properties *)

\* the fileChanged calls of the current loop iteration
Calls == { calls[i] : i \in 1..Len(calls) }

\* the store's entry for the base name of the call's file, before and after
EntryBefore(e) == Entry(e.call.before, Base(e.file))
EntryAfter(e) == Entry(e.call.after, Base(e.file))

\* C1: a watched file whose bytes are the same at two successive checks, and
\* whose digest the store held before the first of them, is reported
\* unchanged by fileChanged at both checks, and the store's entry for its
\* base name stays as it was.
C1_UnchangedFileNotReported ==
    \A e \in Calls :
        /\ (e.call.ok /\ EntryBefore(e) = e.call.digest)
               => (~e.call.ret /\ e.call.after = e.call.before)
        /\ (e.call.ok /\ e.prev.ok /\ e.prev.recorded
                /\ e.prev.digest = e.call.digest)
               => (~e.call.ret /\ EntryAfter(e) = e.prev.entry)

\* C2: when the bytes of a watched file differ between two successive checks
\* of it, the second check returns true and stores the new digest; and a
\* check that follows one that returned true, the bytes being the same,
\* returns false.
C2_ChangedFileReportedOnce ==
    \A e \in Calls :
        /\ (e.call.ok /\ e.prev.ok /\ e.prev.digest # e.call.digest)
               => (e.call.ret /\ EntryAfter(e) = e.call.digest)
        /\ (e.call.ok /\ e.prev.ok /\ ~e.prev.recorded
                /\ e.prev.digest = e.call.digest)
               => ~e.call.ret

\* C3: a check that cannot read its file returns false and leaves the hash
\* store as it was; it causes no notification, in either mode; and the next
\* check that reads the file compares it with the entry the store held at the
\* failed check.
C3_ReadFailureIsNoChange ==
    /\ \A e \in Calls :
           ~e.call.ok => (~e.call.ret /\ e.call.after = e.call.before)
    /\ (mode = "auto" /\ calls # << >> /\ \A e \in Calls : ~e.call.ok)
           => (pc = "done" /\ emitted = 0)
    /\ (mode = "timed" /\ pc \in { "send", "done" })
           => (change <=> \E e \in Calls : e.call.ok /\ e.call.ret)
    /\ \A e \in Calls :
           (e.call.ok /\ ~e.prev.none /\ ~e.prev.ok)
               => EntryBefore(e) = e.prev.entry

\* C4: in timed mode a sweep sends exactly one notification when fileChanged
\* returned true for at least one file of the sweep, however many, and none
\* otherwise.
C4_OneNotificationPerSweep ==
    mode = "timed" =>
        /\ emitted <= 1
        /\ pc = "send" => (emitted = 0 /\ \E e \in Calls : e.call.ret)
        /\ pc = "done" =>
               emitted = (IF \E e \in Calls : e.call.ret THEN 1 ELSE 0)

C4_Witness ==
    /\ mode = "timed" /\ pc = "done" /\ emitted = 1
    /\ \E e1, e2 \in Calls :
           e1.file # e2.file /\ Base(e1.file) # Base(e2.file)
           /\ e1.call.ret /\ e2.call.ret

\* C5: in event-driven mode a raw event whose base name is that of a watched
\* file leads to one fileChanged call, on the matched file, and to exactly
\* one notification when that call returned true, and to none otherwise.
C5_OneNotificationPerEvent ==
    mode = "auto" =>
        /\ emitted <= 1
        /\ Len(calls) <= 1
        /\ (event.op \in Ops /\ FirstMatch(files, event) # 0)
               => /\ Len(calls) = 1
                  /\ calls[1].file = files[FirstMatch(files, event)]
                  /\ pc = "send" => (emitted = 0 /\ calls[1].call.ret)
                  /\ pc = "done" =>
                         emitted = (IF calls[1].call.ret THEN 1 ELSE 0)

C5_Witness ==
    /\ mode = "auto" /\ pc = "done" /\ emitted = 1
    /\ event.op \in Ops /\ calls # << >>

\* C6: in event-driven mode the event of a watched file leads to a check of
\* that file, and the create event of a watched file that is in place
\* re-registers the watch on that file: so a watched file that is deleted and
\* recreated is watched again and its later edits are checked.
C6_RecreatedFileStaysWatched ==
    [][ (mode = "auto" /\ pc = "select" /\ event'.op \in Ops
            /\ event'.name \in Range(files))
        => /\ Len(calls') = 1
           /\ calls'[1].file = event'.name
           /\ (event'.op = "Create" /\ fs[event'.name] # NoFile)
                  => event'.name \in watches' ]_vars

\* C7 as claimed: a watcher that is at the send on notify can always proceed.
C7_SendNeverBlocks ==
    pc = "send" => ENABLED (AutoSend \/ TimedSend)

\* C7: a watcher that is at the send on notify can proceed exactly when the
\* channel's buffer has a free slot; when the buffer is full the send waits
\* for the consumer, which can then receive.
C7_SendBlocksOnlyWhenFull ==
    pc = "send" =>
        /\ ENABLED (AutoSend \/ TimedSend) <=> notify < NotifyCap
        /\ notify >= NotifyCap => ENABLED Receive

\* a loop iteration that made its check while an earlier notification was
\* still in the buffer
C7_Witness ==
    /\ pc = "done" /\ calls # << >> /\ emitted = 0
    /\ notify = NotifyCap

\* C8: receiving an error from watcher.Errors changes neither the hash store
\* nor the watches nor the pending events, sends no notification, and leaves
\* the loop running: the iteration ends and the next one can receive.
C8_ErrorOnlyLogged ==
    /\ [][ (pc = "select" /\ event' = ErrorEvent)
           => /\ pc' = "done"
              /\ hashes' = hashes /\ watches' = watches /\ events' = events
              /\ notify' = notify /\ emitted' = 0 /\ calls' = << >>
              /\ lastCall' = lastCall ]_vars
    /\ [](event = ErrorEvent => (pc = "done" /\ ENABLED AutoLoop))

C8_Witness ==
    /\ pc = "done" /\ event = ErrorEvent
    /\ events # << >> /\ watches # {} /\ DOMAIN hashes # {}

\* C9: when fsnotify.NewWatcher() fails, watchAuto has panicked: it holds no
\* watch, it is not in its loop and it has sent no notification.
C9_NoWatcherNoWatch ==
    watcherErr =>
        /\ pc = "panicked"
        /\ watches = {} /\ events = << >>
        /\ notify = 0 /\ emitted = 0 /\ calls = << >> /\ event = NoEvent

C9_Witness ==
    /\ watcherErr /\ pc = "panicked"
    /\ \E i \in 1..Len(files) : fs[files[i]] # NoFile

\* C10: in timed mode a sweep that finds every watched file either missing or
\* with the content whose digest the store holds for its base name sends no
\* notification and leaves the store as it was: so a file deleted and
\* recreated with the content last recorded causes none, however many ticks
\* fire meanwhile.
C10_RecreatedSameContentQuiet ==
    (/\ mode = "timed" /\ pc \in { "send", "done" }
     /\ \A e \in Calls : ~e.call.ok \/ e.call.digest = EntryBefore(e))
    => /\ pc = "done" /\ ~change /\ emitted = 0
       /\ \A e \in Calls : e.call.after = e.call.before /\ hashes = e.call.after

\* the only watched file, missing at the previous tick, is back with the
\* content last recorded, and the sweep is over
C10_Witness ==
    /\ mode = "timed" /\ pc = "done" /\ Len(files) = 1
    /\ \E e \in Calls :
           /\ e.call.ok /\ ~e.prev.none /\ ~e.prev.ok
           /\ e.call.digest = EntryBefore(e)

\* C11: the initial population gives the store no entry on behalf of a file
\* it could not read; and a fileChanged call that reads its file while the
\* store holds no entry for the file's base name creates the entry with the
\* digest read and returns true, whatever the digest.
C11_AbsentEntryIsNoKnownState ==
    /\ [][ pc = "start" =>
             \A n \in DOMAIN hashes' :
                 \E i \in 1..Len(files) :
                     Base(files[i]) = n /\ fs[files[i]] # NoFile ]_vars
    /\ [](\A e \in Calls :
              (e.call.ok /\ EntryBefore(e) = Absent)
                  => (e.call.ret /\ EntryAfter(e) = e.call.digest))

\* C12: in every reachable state of either watcher the keys of the hash store
\* are base names of watched files (one entry per base name, the store being
\* a map); no step removes a key; and a step changes the digest of an entry
\* only by a fileChanged call that returned true for a file with that base
\* name.
C12_StoreKeysOnlyGrow ==
    /\ [](DOMAIN hashes \subseteq { Base(files[i]) : i \in 1..Len(files) })
    /\ [][ /\ DOMAIN hashes \subseteq DOMAIN hashes'
           /\ \A n \in DOMAIN hashes :
                  hashes'[n] # hashes[n] =>
                      \E i \in 1..Len(calls') :
                          /\ Base(calls'[i].file) = n
                          /\ calls'[i].call.ret
                          /\ calls'[i].call.after[n] = calls'[i].call.digest
         ]_vars

\* a check has just replaced the digest of an entry the store already held,
\* and another watched file has no entry
C12_Witness ==
    /\ pc \in { "send", "done" }
    /\ \E e \in Calls :
           /\ e.call.ret
           /\ EntryBefore(e) # Absent /\ EntryAfter(e) # EntryBefore(e)
    /\ \E i \in 1..Len(files) : Base(files[i]) \notin DOMAIN hashes

\* C13: a read error on one watched file does not keep the others from
\* being checked. A timed sweep calls fileChanged on every watched file, in
\* list order; a call that cannot read its file hands the store on as it got
\* it; and when a file of the sweep cannot be read and fileChanged returns
\* true for another, the sweep sends its notification. In event-driven mode,
\* after a check that could not read its file the loop goes on, and the event
\* of another watched file is checked, and notified when the check returns
\* true.
C13_ReadErrorLeavesOthersChecked ==
    /\ (mode = "timed" /\ pc \in { "send", "done" }) =>
           /\ Len(calls) = Len(files)
           /\ \A i \in 1..Len(calls) :
                  /\ calls[i].file = files[i]
                  /\ ~calls[i].call.ok
                         => calls[i].call.after = calls[i].call.before
                  /\ i < Len(calls)
                         => calls[i + 1].call.before = calls[i].call.after
           /\ ((\E e \in Calls : ~e.call.ok) /\ (\E e \in Calls : e.call.ret))
                  => (pc = "send" \/ emitted = 1)
    /\ (mode = "auto" /\ calls # << >> /\ \A e \in Calls : ~e.call.ok)
           => (pc = "done" /\ ENABLED AutoLoop)
    /\ (mode = "auto" /\ event.op \in Ops /\ FirstMatch(files, event) # 0
            /\ \E p \in Range(files) : ~lastCall[p].none /\ ~lastCall[p].ok)
           => /\ Len(calls) = 1
              /\ calls[1].call.ret => (pc = "send" \/ emitted = 1)

\* a sweep whose first file could not be read has found the second changed
\* and has notified
C13_Witness ==
    /\ mode = "timed" /\ pc = "done" /\ emitted = 1
    /\ Len(calls) = 2
    /\ ~calls[1].call.ok
    /\ calls[2].call.ok /\ calls[2].call.ret /\ calls[2].prev.ok

\* C14: in event-driven mode the handling of a raw event whose base name is
\* that of some watched file calls fileChanged once, on the first file of the
\* list with that base name; no other path is read (no other path's last
\* call changes) and no other path is added to the watches, also when
\* several watched files have that base name.
C14_FirstMatchOnly ==
    [][ (mode = "auto" /\ pc = "select" /\ event'.op \in Ops
            /\ \E k \in 1..Len(files) : Base(files[k]) = Base(event'.name))
        => \E i \in 1..Len(files) :
               /\ Base(files[i]) = Base(event'.name)
               /\ \A j \in 1..(i - 1) : Base(files[j]) # Base(event'.name)
               /\ Len(calls') = 1 /\ calls'[1].file = files[i]
               /\ \A p \in Paths \ {files[i]} : lastCall'[p] = lastCall[p]
               /\ watches' \subseteq watches \cup {files[i]} ]_vars

\* the create event of the second of two watched files of one base name has
\* been handled: the first was checked, the second is in place and unwatched
C14_Witness ==
    /\ mode = "auto" /\ pc \in { "send", "done" }
    /\ Len(files) = 2 /\ Base(files[1]) = Base(files[2])
    /\ event.op = "Create" /\ event.name = files[2]
    /\ Len(calls) = 1 /\ calls[1].file = files[1]
    /\ fs[files[2]] # NoFile /\ files[2] \notin watches

\* C15: in event-driven mode the handling of a raw event whose base name is
\* that of no watched file leaves the hash store and the watches as they
\* were, calls fileChanged on nothing and sends no notification: the
\* iteration ends.
C15_UnmatchedEventIgnored ==
    [][ (mode = "auto" /\ pc = "select" /\ event'.op \in Ops
            /\ \A k \in 1..Len(files) : Base(files[k]) # Base(event'.name))
        => /\ hashes' = hashes /\ watches' = watches
           /\ lastCall' = lastCall /\ calls' = << >>
           /\ notify' = notify /\ emitted' = 0
           /\ pc' = "done" ]_vars

\* the event of a neighbour of the watched file, created in the watched
\* directory with content the store does not hold, has been handled
C15_Witness ==
    /\ mode = "auto" /\ pc = "done"
    /\ event.op = "Create" /\ event.name \notin Range(files)
    /\ \A k \in 1..Len(files) : Base(files[k]) # Base(event.name)
    /\ fs[event.name] # NoFile
    /\ \A n \in DOMAIN hashes : hashes[n] # Sum256(fs[event.name])
    /\ DOMAIN hashes # {}

\* C16: in event-driven mode, when an event of a watched file is received
\* and the file holds what it held when the previous event of that file was
\* received (or is missing as it was then), the event sends no notification:
\* of the events of one file that see the same content, only the first can
\* notify.
C16_RepeatedEventsNotifyOnce ==
    [][ (mode = "auto" /\ pc = "select" /\ event'.op \in Ops
            /\ event'.name \in Range(files)
            /\ seen[event'.name] = fs[event'.name])
        => pc' = "done" ]_vars

\* C17: in timed mode, with a ticker that keeps firing and a consumer that
\* receives, whenever the watcher waits for the ticker while a watched file
\* holds content other than what the watcher last read from it, then either
\* the file ceases to hold that content or a notification is sent.
C17_ChangeEventuallyNotified ==
    \A p \in Paths : \A c \in Contents :
        (/\ mode = "timed" /\ pc = "wait" /\ p \in Range(files)
         /\ fs[p] = c
         /\ lastCall[p].ok /\ lastCall[p].digest # Sum256(c))
        ~> (fs[p] # c \/ emitted = 1)

\* C18: a timed sweep does not stop at the first changed file: it calls
\* fileChanged on every watched file, and when it is over the store's entry
\* for the base name of every file it could read is the digest it read from
\* that file; so a sweep in which every file is as it was at its previous
\* check (the same digest, or still unreadable) sends no notification.
C18_SweepRecordsEveryFile ==
    (mode = "timed" /\ pc \in { "send", "done" }) =>
        /\ Len(calls) = Len(files)
        /\ \A e \in Calls :
               e.call.ok => Entry(hashes, Base(e.file)) = e.call.digest
        /\ (\A e \in Calls :
                /\ ~e.prev.none
                /\ e.call.ok = e.prev.ok
                /\ e.call.ok => e.call.digest = e.prev.digest)
               => (pc = "done" /\ emitted = 0)

\* C19: in event-driven mode, whenever the watcher is back at its select with
\* no raw event left to receive, the store holds, for every watched file that
\* can be read, the digest of what the file holds now: no content change made
\* since watchAuto started, the time between the initial hashing and the
\* registration of the watches included, is left unseen (a change is notified
\* exactly when fileChanged stores its digest).
C19_StoreCurrentWhenQuiet ==
    (mode = "auto" /\ pc = "select" /\ events = << >>) =>
        \A i \in 1..Len(files) :
            fs[files[i]] # NoFile
                => Entry(hashes, Base(files[i])) = Sum256(fs[files[i]])

====
